---- MODULE Spec2Model ----
(***************************************************************************)
(* Model of the pursuit-game outcome counter of src/day_10.rs (part 3):    *)
(* Board::from_str, Game::new, the knight-move iterator DragonMoves and the *)
(* two mutually recursive, memoized turn functions Game::sheep_moves and    *)
(* Game::dragon_moves, driven by Game::count_winning_games.                 *)
(*                                                                         *)
(* Rows and columns are 0-based as in the source.  A grid is a sequence of  *)
(* rows, a row a sequence of one-character strings.                         *)
(***************************************************************************)
EXTENDS Integers, Sequences, FiniteSets, TLC

\* The sentinel stored in Game.sheep / Game.safe for "no row" (map_or(99, ..)).
NONE == 99

\* Largest value of the u8 that Pos.row / Pos.col are stored in.
U8Max == 255

\* Number of entries of the MOVES table of DragonMoves::next.
NumMoves == 8

(***************************************************************************)
(* usize arithmetic.  A count is a 64-bit unsigned integer, kept as four    *)
(* 16-bit limbs, least significant first; an addition that leaves the range *)
(* wraps and reports a carry.                                               *)
(***************************************************************************)
LimbBase == 2^16

U64Zero == <<0, 0, 0, 0>>

U64One == <<1, 0, 0, 0>>

\* An addition of 32 bits.
U64Add_Wraps32(a, b) ==
    LET s1 == a[1] + b[1]
        s2 == a[2] + b[2] + (s1 \div LimbBase)
    IN  [val   |-> <<s1 % LimbBase, s2 % LimbBase, 0, 0>>,
         carry |-> FALSE]

U64Add(a, b) ==
    LET s1 == a[1] + b[1]
        s2 == a[2] + b[2] + (s1 \div LimbBase)
        s3 == a[3] + b[3] + (s2 \div LimbBase)
        s4 == a[4] + b[4] + (s3 \div LimbBase)
    IN  [val   |-> <<s1 % LimbBase, s2 % LimbBase, s3 % LimbBase, s4 % LimbBase>>,
         carry |-> (s4 \div LimbBase) > 0]

\* A small natural number as a count.
U64Of(n) == <<n % LimbBase, (n \div LimbBase) % LimbBase, 0, 0>>

\* a * 10 + d for a decimal digit d, in 64 bits.
U64Shift10(a, d) ==
    LET s1 == a[1] * 10 + d
        s2 == a[2] * 10 + (s1 \div LimbBase)
        s3 == a[3] * 10 + (s2 \div LimbBase)
        s4 == a[4] * 10 + (s3 \div LimbBase)
    IN  <<s1 % LimbBase, s2 % LimbBase, s3 % LimbBase, s4 % LimbBase>>

\* The count written in decimal, most significant digit first.
RECURSIVE U64Decimal(_)
U64Decimal(digits) ==
    IF Len(digits) = 0 THEN U64Zero
    ELSE U64Shift10(U64Decimal(SubSeq(digits, 1, Len(digits) - 1)),
                    digits[Len(digits)])

(***************************************************************************)
(* Pos                                                                     *)
(***************************************************************************)
\* Pos::new
Pos(row, col) == [row |-> row, col |-> col]

\* Pos::into_index
into_index(pos, width) == pos.row * width + pos.col

(***************************************************************************)
(* DragonMoves: the iterator over the knight moves of an origin.  MOVES[i]  *)
(* is (column offset, row offset), as DragonMoves::next applies .0 to the   *)
(* column and .1 to the row.                                                *)
(***************************************************************************)
MOVES ==
    << <<-1, -2>>, <<1, -2>>, <<-2, -1>>, <<2, -1>>,
       <<-2, 1>>,  <<2, 1>>,  <<-1, 2>>,  <<1, 2>> >>

\* The move of 0-based table index i from origin is kept by DragonMoves::next:
\* both checked_add_signed calls give a u8, and it lies on the board.
MoveInBounds(origin, width, height, i) ==
    LET c1 == origin.col + MOVES[i + 1][1]
        r1 == origin.row + MOVES[i + 1][2]
    IN  /\ c1 >= 0 /\ c1 <= U8Max /\ c1 < width
        /\ r1 >= 0 /\ r1 <= U8Max /\ r1 < height

\* A step that applies the first offset to the row and the second to the column.
MoveTarget_Transposed(origin, i) ==
    Pos(origin.row + MOVES[i + 1][1], origin.col + MOVES[i + 1][2])

MoveTarget(origin, i) ==
    Pos(origin.row + MOVES[i + 1][2], origin.col + MOVES[i + 1][1])

\* An iterator that ends at the first move that leaves the board.
NextMoveIndex_StopsAtFirstMiss(origin, width, height, index) ==
    IF index >= NumMoves THEN NumMoves
    ELSE IF MoveInBounds(origin, width, height, index) THEN index
    ELSE NumMoves

\* DragonMoves::next from iterator position index: the table index of the item
\* it returns, or NumMoves when it returns None.
RECURSIVE NextMoveIndex(_, _, _, _)
NextMoveIndex(origin, width, height, index) ==
    IF index >= NumMoves THEN NumMoves
    ELSE IF MoveInBounds(origin, width, height, index) THEN index
    ELSE NextMoveIndex(origin, width, height, index + 1)

(***************************************************************************)
(* Board::from_str.  The result is [kind |-> "Ok", board |-> ..],           *)
(* [kind |-> "SyntaxError"] or, when a vector is indexed out of range,      *)
(* [kind |-> "Panic"].                                                      *)
(***************************************************************************)
NoDragon == [row |-> NONE + U8Max, col |-> NONE + U8Max]

\* The loop of from_str from cell (r, c) on, 0-based, over the lines s.
RECURSIVE ParseFrom(_, _, _, _, _, _, _)
ParseFrom(s, width, r, c, dragon, sheep, blocked) ==
    IF r >= Len(s)
    THEN IF dragon = NoDragon
         THEN [kind |-> "SyntaxError"]
         ELSE [kind |-> "Ok",
               board |-> [width |-> width, height |-> Len(s), dragon |-> dragon,
                          sheep |-> sheep, blocked |-> blocked]]
    ELSE IF c >= Len(s[r + 1])
    THEN ParseFrom(s, width, r + 1, 0, dragon, sheep, blocked)
    ELSE LET ch  == s[r + 1][c + 1]
             idx == into_index(Pos(r, c), width)
         IN  IF r > U8Max \/ c > U8Max
             THEN [kind |-> "Panic"]
             ELSE IF ch = "."
             THEN ParseFrom(s, width, r, c + 1, dragon, sheep, blocked)
             ELSE IF ch = "D" /\ dragon = NoDragon
             THEN ParseFrom(s, width, r, c + 1, Pos(r, c), sheep, blocked)
             ELSE IF ch = "S"
             THEN IF idx \in DOMAIN sheep
                  THEN ParseFrom(s, width, r, c + 1, dragon,
                                 [sheep EXCEPT ![idx] = TRUE], blocked)
                  ELSE [kind |-> "Panic"]
             ELSE IF ch = "#"
             THEN IF idx \in DOMAIN blocked
                  THEN ParseFrom(s, width, r, c + 1, dragon, sheep,
                                 [blocked EXCEPT ![idx] = TRUE])
                  ELSE [kind |-> "Panic"]
             ELSE [kind |-> "SyntaxError"]

from_str(s) ==
    IF Len(s) = 0
    THEN [kind |-> "SyntaxError"]
    ELSE LET width  == Len(s[1])
             height == Len(s)
             empty  == [i \in 0..(width * height - 1) |-> FALSE]
         IN  ParseFrom(s, width, 0, 0, NoDragon, empty, empty)

\* Board::has_sheep_at
board_has_sheep_at(b, pos) == b.sheep[into_index(pos, b.width)]

\* A board that has no hideouts.
is_blocked_Never(b, pos) == FALSE

\* Board::is_blocked
is_blocked(b, pos) == b.blocked[into_index(pos, b.width)]

(***************************************************************************)
(* Game::new: the two per-column vectors.                                   *)
(***************************************************************************)
\* A Game that tracks the lowest sheep of each column.
InitialSheep_Bottommost(b) ==
    [c \in 0..(b.width - 1) |->
        LET rows == {r \in 0..(b.height - 1) : board_has_sheep_at(b, Pos(r, c))}
        IN  IF rows = {} THEN NONE
            ELSE CHOOSE r \in rows : \A q \in rows : r >= q]

InitialSheep(b) ==
    [c \in 0..(b.width - 1) |->
        LET rows == {r \in 0..(b.height - 1) : board_has_sheep_at(b, Pos(r, c))}
        IN  IF rows = {} THEN NONE
            ELSE CHOOSE r \in rows : \A q \in rows : r <= q]

\* A threshold at the first row of the open cells that end the column.
InitialSafe_OpenSuffix(b) ==
    [c \in 0..(b.width - 1) |->
        LET rows == {r \in 0..b.height :
                        \A q \in r..(b.height - 1) : ~is_blocked(b, Pos(q, c))}
        IN  CHOOSE r \in rows : \A q \in rows : r <= q]

InitialSafe(b) ==
    [c \in 0..(b.width - 1) |->
        LET rows == {r \in 1..b.height : ~is_blocked(b, Pos(r - 1, c))}
        IN  IF rows = {} THEN NONE
            ELSE CHOOSE r \in rows : \A q \in rows : r >= q]

(***************************************************************************)
(* The program state: the board, the fields of Game, the memo table `seen`  *)
(* of count_winning_games, and the call stack of the two turn functions.    *)
(***************************************************************************)
VARIABLES
    board,      \* the parsed Board the Game borrows
    dragon,     \* Game.dragon
    sheep,      \* Game.sheep, one row (or NONE) per column
    safe,       \* Game.safe, one threshold per column
    seen,       \* the HashMap<CacheKey, usize>
    stack,      \* the frames of sheep_moves / dragon_moves, innermost last
    ret,        \* the value the last return delivered
    overflow,   \* a usize addition has left the 64-bit range
    entry,      \* the function that is called from outside
    pc,         \* position of that call: "start", "running", "done"
    result      \* what it returned

vars == <<board, dragon, sheep, safe, seen, stack, ret, overflow, entry, pc, result>>

(***************************************************************************)
(* The memo table.  A CacheKey is (dragon_turn, dragon, sheep).  The table  *)
(* is kept curried: seen[dragon_turn][dragon] is the function from the      *)
(* sheep vectors stored under that turn and position to their counts.       *)
(***************************************************************************)
NoEntry == <<>>

\* A key that leaves out whose turn it is.
cache_key_WithoutTurn(dragon_turn, d, s) == <<FALSE, d, s>>

\* A key that says it is the dragon's turn, whoever's it is.
cache_key_AlwaysDragonTurn(dragon_turn, d, s) == <<TRUE, d, s>>

\* Game::cache_key
cache_key(dragon_turn, d, s) == <<dragon_turn, d, s>>

Positions(b) == {Pos(r, c) : r \in 0..(b.height - 1), c \in 0..(b.width - 1)}

\* HashMap::new
EmptyCache(b) == [t \in BOOLEAN |-> [p \in Positions(b) |-> <<>>]]

\* HashMap::get: the stored count, or NoEntry.
CacheGet(cache, key) ==
    LET bucket == cache[key[1]][key[2]]
    IN  IF key[3] \in DOMAIN bucket THEN bucket[key[3]] ELSE NoEntry

\* HashMap::insert: the count replaces what the key held.
CacheInsert(cache, key, count) ==
    [cache EXCEPT ![key[1]][key[2]] = (key[3] :> count) @@ @]

\* Game::has_sheep_at
has_sheep_at(s, pos) == s[pos.col] = pos.row

\* A test that holds one row early.
is_safe_OneRowEarly(sf, pos) == sf[pos.col] <= pos.row + 1

\* Game::is_safe
is_safe(sf, pos) == sf[pos.col] <= pos.row

\* sheep_moves line 468: every column is NONE.
AllGone(s) == \A c \in DOMAIN s : s[c] = NONE

\* An illegal move that does not look at the hideout.
IntoDragon_AnyCell(b, d, pos1) == pos1 = d

\* sheep_moves line 480: the sheep's next cell is the dragon's, and not blocked.
IntoDragon(b, d, pos1) == pos1 = d /\ ~is_blocked(b, pos1)

\* sheep_moves line 487: the move leaves the board or reaches the threshold.
Escapes(b, sf, pos1) == pos1.row = b.height \/ is_safe(sf, pos1)

\* A capture of the column's sheep wherever in the column it is.
Captures_AnyRow(b, s, pos1) == ~is_blocked(b, pos1) /\ s[pos1.col] # NONE

\* dragon_moves line 450: the dragon's landing captures the column's sheep.
\* A capture that does not look at the hideout.
Captures_InHideout(b, s, pos1) == has_sheep_at(s, pos1)

Captures(b, s, pos1) == ~is_blocked(b, pos1) /\ has_sheep_at(s, pos1)

(***************************************************************************)
(* The machine that runs the two turn functions.  A machine state m is the  *)
(* record [dragon, sheep, seen, stack, ret, overflow] of the variables of   *)
(* the same names; b is the board and sf the vector Game.safe, which no     *)
(* step changes.  Every step has a guard XEnabled and an effect XStep.      *)
(*                                                                         *)
(* A frame of sheep_moves holds its locals cache_key, count, any_move, the  *)
(* loop column c and the row r read at line 474; a frame of dragon_moves    *)
(* holds cache_key, pos, count, the iterator position index and the item    *)
(* pos1.  The field `at` is the position in the function body.              *)
(***************************************************************************)
Top(m) == m.stack[Len(m.stack)]

SetTop(m, f) == [m EXCEPT !.stack[Len(m.stack)] = f]

\* A call of sheep_moves: line 464 takes the key of the state it is entered in.
SheepFrame(m) ==
    [fn |-> "sheep_moves", at |-> "entry",
     cache_key |-> cache_key(FALSE, m.dragon, m.sheep),
     count |-> U64Zero, any_move |-> FALSE, c |-> 0, r |-> NONE]

\* A call of dragon_moves: line 442.
DragonFrame(m) ==
    [fn |-> "dragon_moves", at |-> "entry",
     cache_key |-> cache_key(TRUE, m.dragon, m.sheep),
     pos |-> m.dragon, count |-> U64Zero, index |-> 0, pos1 |-> m.dragon]

CallSheep(m) == [m EXCEPT !.stack = Append(@, SheepFrame(m))]

CallDragon(m) == [m EXCEPT !.stack = Append(@, DragonFrame(m))]

\* A return statement: the frame is left and the caller receives the value.
Return(m, value) ==
    [m EXCEPT !.stack = SubSeq(@, 1, Len(@) - 1), !.ret = value]

\* count = <the value the call returned>: the last call's value is kept.
AddRet_KeepsLast(m, f) == [m |-> m, count |-> m.ret]

\* count += <the value the call returned>
AddRet(m, f) ==
    LET sum == U64Add(f.count, m.ret)
    IN  [m |-> [m EXCEPT !.overflow = @ \/ sum.carry], count |-> sum.val]

InSheep(m, at) ==
    /\ Len(m.stack) > 0
    /\ Top(m).fn = "sheep_moves"
    /\ Top(m).at = at

InDragon(m, at) ==
    /\ Len(m.stack) > 0
    /\ Top(m).fn = "dragon_moves"
    /\ Top(m).at = at

(* sheep_moves, lines 463-500 *)

\* lines 465-467: the key is in the table.
SheepCacheHitEnabled(b, sf, m) ==
    /\ InSheep(m, "entry")
    /\ CacheGet(m.seen, Top(m).cache_key) # NoEntry

SheepCacheHitStep(b, sf, m) == Return(m, CacheGet(m.seen, Top(m).cache_key))

\* lines 468-470: no sheep is left.
SheepTerminalEnabled(b, sf, m) ==
    /\ InSheep(m, "entry")
    /\ CacheGet(m.seen, Top(m).cache_key) = NoEntry
    /\ AllGone(m.sheep)

\* A terminal state that counts for nothing.
SheepTerminalStep_ReturnsZero(b, sf, m) == Return(m, U64Zero)

SheepTerminalStep(b, sf, m) == Return(m, U64One)

\* lines 471-473: the loop over the columns starts.
SheepBeginEnabled(b, sf, m) ==
    /\ InSheep(m, "entry")
    /\ CacheGet(m.seen, Top(m).cache_key) = NoEntry
    /\ ~AllGone(m.sheep)

\* A table that is given the key, with no count yet, before the loop.
SheepBeginStep_InsertsFirst(b, sf, m) ==
    SetTop([m EXCEPT !.seen = CacheInsert(@, Top(m).cache_key, U64Zero)],
           [Top(m) EXCEPT !.at = "loop", !.count = U64Zero,
                          !.any_move = FALSE, !.c = 0])

SheepBeginStep(b, sf, m) ==
    SetTop(m, [Top(m) EXCEPT !.at = "loop", !.count = U64Zero,
                             !.any_move = FALSE, !.c = 0])

\* The next cell of the sheep of the loop's column (lines 478-479).
SheepTarget(m) == Pos(m.sheep[Top(m).c] + 1, Top(m).c)

InSheepLoop(b, m) == InSheep(m, "loop") /\ Top(m).c < b.width

NextColumn(m, f) == SetTop(m, [f EXCEPT !.c = @ + 1])

\* lines 474-477: the column holds no sheep.
SheepSkipEmptyEnabled(b, sf, m) ==
    /\ InSheepLoop(b, m)
    /\ m.sheep[Top(m).c] = NONE

\* A `continue` that does not reach the next column.
SheepSkipEmptyStep_SameColumn(b, sf, m) == SetTop(m, Top(m))

SheepSkipEmptyStep(b, sf, m) == NextColumn(m, Top(m))

\* lines 480-482: the sheep would step into the dragon.
SheepIllegalEnabled(b, sf, m) ==
    /\ InSheepLoop(b, m)
    /\ m.sheep[Top(m).c] # NONE
    /\ IntoDragon(b, m.dragon, SheepTarget(m))

\* An illegal move that is taken for a move.
SheepIllegalStep_CountsAsMove(b, sf, m) ==
    NextColumn(m, [Top(m) EXCEPT !.any_move = TRUE])

SheepIllegalStep(b, sf, m) == NextColumn(m, Top(m))

\* lines 486-489: the sheep can move, and leaves.
SheepEscapeEnabled(b, sf, m) ==
    /\ InSheepLoop(b, m)
    /\ m.sheep[Top(m).c] # NONE
    /\ ~IntoDragon(b, m.dragon, SheepTarget(m))
    /\ Escapes(b, sf, SheepTarget(m))

\* An escape that is counted as one play.
SheepEscapeStep_CountsEscape(b, sf, m) ==
    LET f   == Top(m)
        sum == U64Add(f.count, U64One)
    IN  NextColumn(m, [f EXCEPT !.any_move = TRUE, !.count = sum.val])

\* An escape that takes the sheep from the board.
SheepEscapeStep_RemovesSheep(b, sf, m) ==
    LET m1 == NextColumn(m, [Top(m) EXCEPT !.any_move = TRUE])
    IN  [m1 EXCEPT !.sheep[Top(m).c] = NONE]

\* An escape that is not recorded as a move.
SheepEscapeStep_NoMove(b, sf, m) == NextColumn(m, Top(m))

SheepEscapeStep(b, sf, m) == NextColumn(m, [Top(m) EXCEPT !.any_move = TRUE])

\* lines 486, 490-491: the sheep moves one row down and dragon_moves is called.
SheepMoveEnabled(b, sf, m) ==
    /\ InSheepLoop(b, m)
    /\ m.sheep[Top(m).c] # NONE
    /\ ~IntoDragon(b, m.dragon, SheepTarget(m))
    /\ ~Escapes(b, sf, SheepTarget(m))

\* A move that writes the new row to the next column.
SheepMoveStep_WrongColumn(b, sf, m) ==
    LET f  == Top(m)
        r  == m.sheep[f.c]
        m1 == SetTop(m, [f EXCEPT !.any_move = TRUE, !.r = r, !.at = "moved"])
    IN  CallDragon([m1 EXCEPT !.sheep[(f.c + 1) % b.width] = r + 1])

\* A move after which the sheep is still in the row it was in.
SheepMoveStep_StaysInRow(b, sf, m) ==
    LET f  == Top(m)
        r  == m.sheep[f.c]
        m1 == SetTop(m, [f EXCEPT !.any_move = TRUE, !.r = r, !.at = "moved"])
    IN  CallDragon(m1)

SheepMoveStep(b, sf, m) ==
    LET f  == Top(m)
        r  == m.sheep[f.c]
        m1 == SetTop(m, [f EXCEPT !.any_move = TRUE, !.r = r, !.at = "moved"])
    IN  CallDragon([m1 EXCEPT !.sheep[f.c] = r + 1])

\* lines 491-492: the call has returned; the count grows and the sheep is put back.
SheepMoveReturnEnabled(b, sf, m) == InSheep(m, "moved")

\* A return that does not put the sheep back.
SheepMoveReturnStep_LosesSheep(b, sf, m) ==
    LET f   == Top(m)
        add == AddRet(m, f)
    IN  SetTop([add.m EXCEPT !.sheep[f.c] = NONE],
               [f EXCEPT !.count = add.count, !.c = @ + 1, !.at = "loop"])

\* A return after which the sheep stays where the branch put it.
SheepMoveReturnStep_KeepsMove(b, sf, m) ==
    LET f   == Top(m)
        add == AddRet(m, f)
    IN  SetTop(add.m, [f EXCEPT !.count = add.count, !.c = @ + 1, !.at = "loop"])

SheepMoveReturnStep(b, sf, m) ==
    LET f   == Top(m)
        add == AddRet(m, f)
    IN  SetTop([add.m EXCEPT !.sheep[f.c] = f.r],
               [f EXCEPT !.count = add.count, !.c = @ + 1, !.at = "loop"])

\* A double move whenever the loop has counted nothing.
SheepDoubleMoveEnabled_NothingCounted(b, sf, m) ==
    /\ InSheep(m, "loop")
    /\ Top(m).c >= b.width
    /\ Top(m).count = U64Zero

\* lines 494-497: no sheep could move; dragon_moves is called from this state.
SheepDoubleMoveEnabled(b, sf, m) ==
    /\ InSheep(m, "loop")
    /\ Top(m).c >= b.width
    /\ ~Top(m).any_move

SheepDoubleMoveStep(b, sf, m) == CallDragon(SetTop(m, [Top(m) EXCEPT !.at = "double"]))

\* lines 496-499: the double move has returned; the total is stored and returned.
SheepDoubleReturnEnabled(b, sf, m) == InSheep(m, "double")

\* A double move whose result is not added.
SheepDoubleReturnStep_DropsResult(b, sf, m) ==
    LET f == Top(m)
    IN  Return([m EXCEPT !.seen = CacheInsert(@, f.cache_key, f.count)], f.count)

SheepDoubleReturnStep(b, sf, m) ==
    LET f   == Top(m)
        add == AddRet(m, f)
    IN  Return([add.m EXCEPT !.seen = CacheInsert(@, f.cache_key, add.count)],
               add.count)

\* lines 494, 498-499: some sheep could move; the total is stored and returned.
SheepFinishEnabled(b, sf, m) ==
    /\ InSheep(m, "loop")
    /\ Top(m).c >= b.width
    /\ Top(m).any_move

SheepFinishStep(b, sf, m) ==
    LET f == Top(m)
    IN  Return([m EXCEPT !.seen = CacheInsert(@, f.cache_key, f.count)], f.count)

(* dragon_moves, lines 441-461 *)

\* lines 443-445: the key is in the table.
DragonCacheHitEnabled(b, sf, m) ==
    /\ InDragon(m, "entry")
    /\ CacheGet(m.seen, Top(m).cache_key) # NoEntry

DragonCacheHitStep(b, sf, m) == Return(m, CacheGet(m.seen, Top(m).cache_key))

\* lines 446-448: the loop over the knight moves of pos starts.
DragonBeginEnabled(b, sf, m) ==
    /\ InDragon(m, "entry")
    /\ CacheGet(m.seen, Top(m).cache_key) = NoEntry

DragonBeginStep(b, sf, m) ==
    SetTop(m, [Top(m) EXCEPT !.at = "loop", !.pos = m.dragon,
                             !.count = U64Zero, !.index = 0])

\* The table index of the item the iterator of the top frame yields next.
DragonNext(b, m) == NextMoveIndex(Top(m).pos, b.width, b.height, Top(m).index)

InDragonLoop(b, m) == InDragon(m, "loop") /\ DragonNext(b, m) < NumMoves

\* lines 449-452: the dragon lands on the sheep of the column on an open cell.
DragonCaptureEnabled(b, sf, m) ==
    /\ InDragonLoop(b, m)
    /\ Captures(b, m.sheep, MoveTarget(Top(m).pos, DragonNext(b, m)))

DragonCaptureStep(b, sf, m) ==
    LET f    == Top(m)
        i    == DragonNext(b, m)
        pos1 == MoveTarget(f.pos, i)
        m1   == SetTop(m, [f EXCEPT !.index = i + 1, !.pos1 = pos1, !.at = "captured"])
    IN  CallSheep([m1 EXCEPT !.dragon = pos1, !.sheep[pos1.col] = NONE])

\* lines 452-453: the call has returned; the captured sheep is put back.
DragonCaptureReturnEnabled(b, sf, m) == InDragon(m, "captured")

DragonCaptureReturnStep(b, sf, m) ==
    LET f   == Top(m)
        add == AddRet(m, f)
    IN  SetTop([add.m EXCEPT !.sheep[f.pos1.col] = f.pos1.row],
               [f EXCEPT !.count = add.count, !.at = "loop"])

\* lines 449-450, 454-455: the dragon lands without a capture.
DragonAdvanceEnabled(b, sf, m) ==
    /\ InDragonLoop(b, m)
    /\ ~Captures(b, m.sheep, MoveTarget(Top(m).pos, DragonNext(b, m)))

\* A landing after which the dragon moves again at once.
DragonAdvanceStep_CallsDragon(b, sf, m) ==
    LET f    == Top(m)
        i    == DragonNext(b, m)
        pos1 == MoveTarget(f.pos, i)
        m1   == SetTop(m, [f EXCEPT !.index = i + 1, !.pos1 = pos1, !.at = "advanced"])
    IN  CallDragon([m1 EXCEPT !.dragon = pos1])

DragonAdvanceStep(b, sf, m) ==
    LET f    == Top(m)
        i    == DragonNext(b, m)
        pos1 == MoveTarget(f.pos, i)
        m1   == SetTop(m, [f EXCEPT !.index = i + 1, !.pos1 = pos1, !.at = "advanced"])
    IN  CallSheep([m1 EXCEPT !.dragon = pos1])

\* line 455: the call has returned.
DragonAdvanceReturnEnabled(b, sf, m) == InDragon(m, "advanced")

DragonAdvanceReturnStep(b, sf, m) ==
    LET f   == Top(m)
        add == AddRet(m, f)
    IN  SetTop(add.m, [f EXCEPT !.count = add.count, !.at = "loop"])

\* lines 457-460: the iterator is exhausted; the dragon is put back, the total
\* stored and returned.
DragonFinishEnabled(b, sf, m) ==
    /\ InDragon(m, "loop")
    /\ DragonNext(b, m) >= NumMoves

\* A return that leaves the dragon on its last target.
DragonFinishStep_KeepsDragon(b, sf, m) ==
    LET f == Top(m)
    IN  Return([m EXCEPT !.seen = CacheInsert(@, f.cache_key, f.count)], f.count)

DragonFinishStep(b, sf, m) ==
    LET f == Top(m)
    IN  Return([m EXCEPT !.dragon = f.pos,
                         !.seen = CacheInsert(@, f.cache_key, f.count)],
               f.count)

\* The validation boards of tests::test_part_3.
P3_EXAMPLE1 ==
    << <<"S", "S", "S">>,
       <<".", ".", "#">>,
       <<"#", ".", "#">>,
       <<"#", "D", ".">> >>

P3_EXAMPLE2 ==
    << <<"S", "S", "S">>,
       <<".", ".", "#">>,
       <<".", ".", "#">>,
       <<".", "#", "#">>,
       <<".", "D", "#">> >>

P3_EXAMPLE3 ==
    << <<".", ".", "S", ".", ".">>,
       <<".", ".", ".", ".", ".">>,
       <<".", ".", "#", ".", ".">>,
       <<".", ".", ".", ".", ".">>,
       <<".", ".", "D", ".", ".">> >>

P3_EXAMPLE4 ==
    << <<".", "S", "S", ".", "S">>,
       <<"#", ".", ".", ".", "#">>,
       <<".", ".", ".", "#", ".">>,
       <<"#", "#", ".", ".", "#">>,
       <<".", "#", "#", "#", "#">>,
       <<"#", "#", "D", ".", "#">> >>

P3_EXAMPLE5 ==
    << <<"S", "S", "S", ".", "S">>,
       <<".", ".", ".", ".", ".">>,
       <<"#", ".", "#", ".", "#">>,
       <<".", "#", ".", "#", ".">>,
       <<"#", ".", "D", ".", "#">> >>

(***************************************************************************)
(* One step of the machine, whichever is enabled: the statement the         *)
(* innermost frame executes next.  At most one guard holds in a state.      *)
(***************************************************************************)
Step(b, sf, m) ==
    IF Len(m.stack) = 0 THEN m
    ELSE IF Top(m).fn = "sheep_moves"
    THEN CASE SheepCacheHitEnabled(b, sf, m)     -> SheepCacheHitStep(b, sf, m)
           [] SheepTerminalEnabled(b, sf, m)     -> SheepTerminalStep(b, sf, m)
           [] SheepBeginEnabled(b, sf, m)        -> SheepBeginStep(b, sf, m)
           [] SheepSkipEmptyEnabled(b, sf, m)    -> SheepSkipEmptyStep(b, sf, m)
           [] SheepIllegalEnabled(b, sf, m)      -> SheepIllegalStep(b, sf, m)
           [] SheepEscapeEnabled(b, sf, m)       -> SheepEscapeStep(b, sf, m)
           [] SheepMoveEnabled(b, sf, m)         -> SheepMoveStep(b, sf, m)
           [] SheepMoveReturnEnabled(b, sf, m)   -> SheepMoveReturnStep(b, sf, m)
           [] SheepDoubleMoveEnabled(b, sf, m)   -> SheepDoubleMoveStep(b, sf, m)
           [] SheepDoubleReturnEnabled(b, sf, m) -> SheepDoubleReturnStep(b, sf, m)
           [] SheepFinishEnabled(b, sf, m)       -> SheepFinishStep(b, sf, m)
    ELSE CASE DragonCacheHitEnabled(b, sf, m)      -> DragonCacheHitStep(b, sf, m)
           [] DragonBeginEnabled(b, sf, m)         -> DragonBeginStep(b, sf, m)
           [] DragonCaptureEnabled(b, sf, m)       -> DragonCaptureStep(b, sf, m)
           [] DragonCaptureReturnEnabled(b, sf, m) -> DragonCaptureReturnStep(b, sf, m)
           [] DragonAdvanceEnabled(b, sf, m)       -> DragonAdvanceStep(b, sf, m)
           [] DragonAdvanceReturnEnabled(b, sf, m) -> DragonAdvanceReturnStep(b, sf, m)
           [] DragonFinishEnabled(b, sf, m)        -> DragonFinishStep(b, sf, m)

\* The next step of the machine is a call of one of the two functions.
CallEnabled(b, sf, m) ==
    \/ SheepMoveEnabled(b, sf, m)
    \/ SheepDoubleMoveEnabled(b, sf, m)
    \/ DragonCaptureEnabled(b, sf, m)
    \/ DragonAdvanceEnabled(b, sf, m)

(***************************************************************************)
(* Granularity.  On a board of more than FineCells cells the frames below   *)
(* depth AtomicDepth are not shown one statement at a time: a call made at  *)
(* that depth runs until it returns, as a single step of the model made of  *)
(* at most 2^RunLog steps of the machine.                                   *)
(***************************************************************************)
FineCells == 15

AtomicDepth == 1

RunLog == 22

SteppedOver(b, m) ==
    /\ b.width * b.height > FineCells
    /\ Len(m.stack) >= AtomicDepth

\* Steps of the machine from m until the stack is no deeper than depth, n at most.
RECURSIVE RunCallee(_, _, _, _, _)
RunCallee(b, sf, m, depth, n) ==
    IF Len(m.stack) <= depth THEN m
    ELSE IF n <= 1 THEN Step(b, sf, m)
    ELSE LET half == RunCallee(b, sf, m, depth, n \div 2)
         IN  IF Len(half.stack) <= depth THEN half
             ELSE RunCallee(b, sf, half, depth, n - (n \div 2))

(***************************************************************************)
(* The actions.                                                            *)
(***************************************************************************)
Machine ==
    [dragon |-> dragon, sheep |-> sheep, seen |-> seen,
     stack |-> stack, ret |-> ret, overflow |-> overflow]

Becomes(m) ==
    /\ dragon' = m.dragon
    /\ sheep' = m.sheep
    /\ seen' = m.seen
    /\ stack' = m.stack
    /\ ret' = m.ret
    /\ overflow' = m.overflow
    /\ UNCHANGED <<board, safe, entry, pc, result>>

\* Game::count_winning_games, lines 429-430: a fresh table, and the first call.
CountWinningGames ==
    /\ entry = "count_winning_games"
    /\ pc = "start"
    /\ pc' = "running"
    /\ seen' = EmptyCache(board)
    /\ stack' = <<SheepFrame(Machine)>>
    /\ UNCHANGED <<board, dragon, sheep, safe, ret, overflow, entry, result>>

\* Game::count_winning_games, line 430: the value of the first call is returned.
CountReturn ==
    /\ entry = "count_winning_games"
    /\ pc = "running"
    /\ stack = <<>>
    /\ pc' = "done"
    /\ result' = ret
    /\ UNCHANGED <<board, dragon, sheep, safe, seen, stack, ret, overflow, entry>>

\* sheep_moves called on its own, on the state the Game is in and a table the
\* caller supplies.
InvokeSheepMoves ==
    /\ entry = "sheep_moves"
    /\ pc = "start"
    /\ pc' = "running"
    /\ stack' = <<SheepFrame(Machine)>>
    /\ UNCHANGED <<board, dragon, sheep, safe, seen, ret, overflow, entry, result>>

\* dragon_moves called on its own.
InvokeDragonMoves ==
    /\ entry = "dragon_moves"
    /\ pc = "start"
    /\ pc' = "running"
    /\ stack' = <<DragonFrame(Machine)>>
    /\ UNCHANGED <<board, dragon, sheep, safe, seen, ret, overflow, entry, result>>

\* The function called on its own has returned its value.
InvokeReturn ==
    /\ entry # "count_winning_games"
    /\ pc = "running"
    /\ stack = <<>>
    /\ pc' = "done"
    /\ result' = ret
    /\ UNCHANGED <<board, dragon, sheep, safe, seen, stack, ret, overflow, entry>>

SheepCacheHit ==
    /\ pc = "running"
    /\ SheepCacheHitEnabled(board, safe, Machine)
    /\ Becomes(SheepCacheHitStep(board, safe, Machine))

SheepTerminal ==
    /\ pc = "running"
    /\ SheepTerminalEnabled(board, safe, Machine)
    /\ Becomes(SheepTerminalStep(board, safe, Machine))

SheepBegin ==
    /\ pc = "running"
    /\ SheepBeginEnabled(board, safe, Machine)
    /\ Becomes(SheepBeginStep(board, safe, Machine))

SheepSkipEmpty ==
    /\ pc = "running"
    /\ SheepSkipEmptyEnabled(board, safe, Machine)
    /\ Becomes(SheepSkipEmptyStep(board, safe, Machine))

SheepIllegal ==
    /\ pc = "running"
    /\ SheepIllegalEnabled(board, safe, Machine)
    /\ Becomes(SheepIllegalStep(board, safe, Machine))

SheepEscape ==
    /\ pc = "running"
    /\ SheepEscapeEnabled(board, safe, Machine)
    /\ Becomes(SheepEscapeStep(board, safe, Machine))

SheepMove ==
    /\ pc = "running"
    /\ SheepMoveEnabled(board, safe, Machine)
    /\ ~SteppedOver(board, Machine)
    /\ Becomes(SheepMoveStep(board, safe, Machine))

SheepMoveReturn ==
    /\ pc = "running"
    /\ SheepMoveReturnEnabled(board, safe, Machine)
    /\ Becomes(SheepMoveReturnStep(board, safe, Machine))

SheepDoubleMove ==
    /\ pc = "running"
    /\ SheepDoubleMoveEnabled(board, safe, Machine)
    /\ ~SteppedOver(board, Machine)
    /\ Becomes(SheepDoubleMoveStep(board, safe, Machine))

SheepDoubleReturn ==
    /\ pc = "running"
    /\ SheepDoubleReturnEnabled(board, safe, Machine)
    /\ Becomes(SheepDoubleReturnStep(board, safe, Machine))

SheepFinish ==
    /\ pc = "running"
    /\ SheepFinishEnabled(board, safe, Machine)
    /\ Becomes(SheepFinishStep(board, safe, Machine))

DragonCacheHit ==
    /\ pc = "running"
    /\ DragonCacheHitEnabled(board, safe, Machine)
    /\ Becomes(DragonCacheHitStep(board, safe, Machine))

DragonBegin ==
    /\ pc = "running"
    /\ DragonBeginEnabled(board, safe, Machine)
    /\ Becomes(DragonBeginStep(board, safe, Machine))

DragonCapture ==
    /\ pc = "running"
    /\ DragonCaptureEnabled(board, safe, Machine)
    /\ ~SteppedOver(board, Machine)
    /\ Becomes(DragonCaptureStep(board, safe, Machine))

DragonCaptureReturn ==
    /\ pc = "running"
    /\ DragonCaptureReturnEnabled(board, safe, Machine)
    /\ Becomes(DragonCaptureReturnStep(board, safe, Machine))

DragonAdvance ==
    /\ pc = "running"
    /\ DragonAdvanceEnabled(board, safe, Machine)
    /\ ~SteppedOver(board, Machine)
    /\ Becomes(DragonAdvanceStep(board, safe, Machine))

DragonAdvanceReturn ==
    /\ pc = "running"
    /\ DragonAdvanceReturnEnabled(board, safe, Machine)
    /\ Becomes(DragonAdvanceReturnStep(board, safe, Machine))

DragonFinish ==
    /\ pc = "running"
    /\ DragonFinishEnabled(board, safe, Machine)
    /\ Becomes(DragonFinishStep(board, safe, Machine))

\* A call made at depth AtomicDepth or below on a large board, run to its return.
StepOver ==
    /\ pc = "running"
    /\ CallEnabled(board, safe, Machine)
    /\ SteppedOver(board, Machine)
    /\ Becomes(RunCallee(board, safe, Step(board, safe, Machine),
                         Len(stack), 2^RunLog))

(***************************************************************************)
(* The inputs.  Spec draws the grid from a family on the shape of the       *)
(* smallest validation board: one dragon starting in DragonStarts, sheep on  *)
(* any of the cells SheepCells and at most MaxBlocked blocked cells.        *)
(* SpecExamples draws it from the five validation boards.                   *)
(***************************************************************************)
MaxBlocked == 1

FamilyRows == 0..3

FamilyCols == 0..2

FamilyCells == FamilyRows \X FamilyCols

\* Where the family puts sheep, and where the dragon starts.
SheepCells == {<<0, 0>>, <<0, 1>>, <<1, 1>>}

DragonStarts == {<<3, 1>>, <<3, 2>>}

MakeGrid(d, bl, sh) ==
    [r \in 1..Cardinality(FamilyRows) |->
        [c \in 1..Cardinality(FamilyCols) |->
            IF <<r - 1, c - 1>> = d THEN "D"
            ELSE IF <<r - 1, c - 1>> \in sh THEN "S"
            ELSE IF <<r - 1, c - 1>> \in bl THEN "#"
            ELSE "."]]

\* The subsets of S of at most k elements.
RECURSIVE SubsetsUpTo(_, _)
SubsetsUpTo(S, k) ==
    IF k = 0 THEN {{}}
    ELSE LET fewer == SubsetsUpTo(S, k - 1)
         IN  fewer \cup {x \cup {e} : x \in fewer, e \in S}

Family ==
    UNION {
        {MakeGrid(d, bl, sh) : sh \in SUBSET (SheepCells \ ({d} \cup bl))} :
        <<d, bl>> \in {x \in DragonStarts \X SubsetsUpTo(FamilyCells, MaxBlocked) :
                        x[1] \notin x[2]}}

Examples == {P3_EXAMPLE1, P3_EXAMPLE2, P3_EXAMPLE3, P3_EXAMPLE4, P3_EXAMPLE5}

\* Day10::parse and Game::new on a grid that parses.
InitOn(grids) ==
    \E g \in grids :
        /\ from_str(g).kind = "Ok"
        /\ board = from_str(g).board
        /\ dragon = from_str(g).board.dragon
        /\ sheep = InitialSheep(from_str(g).board)
        /\ safe = InitialSafe(from_str(g).board)
        /\ seen = NoEntry
        /\ stack = <<>>
        /\ ret = U64Zero
        /\ overflow = FALSE
        /\ entry = "count_winning_games"
        /\ pc = "start"
        /\ result = NoEntry

Init == InitOn(Family)

\* The boards for the thresholds: columns 0 and 1 blocked in any set of rows,
\* the whole column included, the last column open; a sheep on every cell of
\* SheepCells that is not blocked.
HideoutFamily ==
    {MakeGrid(d, (rows0 \X {0}) \cup (rows1 \X {1}),
              SheepCells \ ((rows0 \X {0}) \cup (rows1 \X {1}))) :
        d \in DragonStarts, rows0 \in SUBSET FamilyRows, rows1 \in SUBSET FamilyRows}

InitHideouts == InitOn(HideoutFamily)

\* A Game on a board of the family in which no sheep is left, the dragon
\* anywhere on the board, and one of the two turn functions about to be
\* called with an empty table.
InitTerminal ==
    \E g \in Family :
        /\ from_str(g).kind = "Ok"
        /\ board = from_str(g).board
        /\ dragon \in Positions(from_str(g).board)
        /\ sheep = [c \in 0..(from_str(g).board.width - 1) |-> NONE]
        /\ safe = InitialSafe(from_str(g).board)
        /\ seen = EmptyCache(from_str(g).board)
        /\ stack = <<>>
        /\ ret = U64Zero
        /\ overflow = FALSE
        /\ entry \in {"sheep_moves", "dragon_moves"}
        /\ pc = "start"
        /\ result = NoEntry

InitExamples == InitOn(Examples)

Next ==
    \/ CountWinningGames
    \/ CountReturn
    \/ SheepCacheHit
    \/ SheepTerminal
    \/ SheepBegin
    \/ SheepSkipEmpty
    \/ SheepIllegal
    \/ SheepEscape
    \/ SheepMove
    \/ SheepMoveReturn
    \/ SheepDoubleMove
    \/ SheepDoubleReturn
    \/ SheepFinish
    \/ DragonCacheHit
    \/ DragonBegin
    \/ DragonCapture
    \/ DragonCaptureReturn
    \/ DragonAdvance
    \/ DragonAdvanceReturn
    \/ DragonFinish

NextExamples == Next \/ StepOver

Spec == Init /\ [][Next]_vars

SpecExamples == InitExamples /\ [][NextExamples]_vars

SpecHideouts == InitHideouts /\ [][Next]_vars

\* The program runs on: it is one thread that never waits, so a statement
\* that can be executed is executed.
SpecFair == Spec /\ WF_vars(Next)

\* What runs when a turn function is called with no sheep left.
NextTerminal ==
    \/ InvokeSheepMoves
    \/ InvokeDragonMoves
    \/ InvokeReturn
    \/ SheepTerminal
    \/ DragonBegin
    \/ DragonAdvance
    \/ DragonAdvanceReturn
    \/ DragonFinish

SpecTerminal == InitTerminal /\ [][NextTerminal]_vars

(***************************************************************************)
(* The game as play sequences, for the claims about what is counted.  A     *)
(* position is whose turn it is, the dragon's cell and the sheep vector.    *)
(* In a sheep turn each sheep that may move is one move; when none may, the *)
(* turn passes.  In a dragon turn each knight target on the board is one    *)
(* move.  Play ends when no sheep is left.                                  *)
(***************************************************************************)
\* The columns whose sheep may move: there is one, and it does not step into
\* the dragon.
LegalColumns(b, d, s) ==
    {c \in 0..(b.width - 1) : s[c] # NONE /\ ~IntoDragon(b, d, Pos(s[c] + 1, c))}

\* The cells a knight move takes the dragon to.
KnightTargets(b, d) ==
    {MoveTarget(d, i) : i \in {j \in 0..(NumMoves - 1) : MoveInBounds(d, b.width, b.height, j)}}

\* The sum of the values of a function of finite domain.
RECURSIVE SumFn(_)
SumFn(f) ==
    IF DOMAIN f = {} THEN 0
    ELSE LET x == CHOOSE y \in DOMAIN f : TRUE
         IN  f[x] + SumFn([y \in DOMAIN f \ {x} |-> f[y]])

\* The number of play sequences from a position that end with no sheep left.
\* A sequence in which a sheep escapes is counted when escapes_count, and
\* is not when ~escapes_count: then only captures end a counted sequence.
RECURSIVE PlaysFromSheepTurn(_, _, _, _, _), PlaysFromDragonTurn(_, _, _, _, _)
PlaysFromSheepTurn(b, sf, d, s, escapes_count) ==
    IF AllGone(s) THEN 1
    ELSE LET cols == LegalColumns(b, d, s)
         IN  IF cols = {}
             THEN PlaysFromDragonTurn(b, sf, d, s, escapes_count)
             ELSE SumFn([c \in cols |->
                     IF Escapes(b, sf, Pos(s[c] + 1, c))
                     THEN IF ~escapes_count THEN 0
                          ELSE IF AllGone([s EXCEPT ![c] = NONE]) THEN 1
                          ELSE PlaysFromDragonTurn(b, sf, d, [s EXCEPT ![c] = NONE],
                                                   escapes_count)
                     ELSE PlaysFromDragonTurn(b, sf, d, [s EXCEPT ![c] = s[c] + 1],
                                              escapes_count)])

PlaysFromDragonTurn(b, sf, d, s, escapes_count) ==
    SumFn([p \in KnightTargets(b, d) |->
            PlaysFromSheepTurn(b, sf, p,
                               IF Captures(b, s, p) THEN [s EXCEPT ![p.col] = NONE] ELSE s,
                               escapes_count)])

\* The number of sheep on the board.
Live(s) == Cardinality({c \in DOMAIN s : s[c] # NONE})

\* count_winning_games has returned.
Done == pc = "done"

\* The run is on the board the grid g parses to.
OnGrid(g) == board = from_str(g).board

(***************************************************************************)
(* C1.  As claimed: for every board, count_winning_games returns the number *)
(* of play sequences from the initial state that end with every sheep       *)
(* escaped or captured.  The code does not count a sequence in which a      *)
(* sheep escapes.                                                           *)
(***************************************************************************)
C1_AsClaimed ==
    Done => result = U64Of(PlaysFromSheepTurn(board, safe, board.dragon,
                                              InitialSheep(board), TRUE))

\* C1, amended: for every board, count_winning_games returns the number of play
\* sequences from the initial state that end with every sheep captured; a
\* sequence in which a sheep escapes is not counted.
C1_CountsCaptureOnlyPlays ==
    Done => result = U64Of(PlaysFromSheepTurn(board, safe, board.dragon,
                                              InitialSheep(board), FALSE))

\* A finished run on a board where one sheep can be captured and another can
\* escape: the count is positive and smaller than the number of all plays.
C1_Witness ==
    /\ Done
    /\ Live(InitialSheep(board)) >= 2
    /\ result # U64Zero
    /\ result # U64Of(PlaysFromSheepTurn(board, safe, board.dragon,
                                         InitialSheep(board), TRUE))

(***************************************************************************)
(* The validation boards.  The expected values are those of                 *)
(* tests::test_part_3, written in decimal as the test writes them.          *)
(***************************************************************************)
\* C2.  On the board SSS / ..# / #.# / #D. count_winning_games returns 15.
C2_Example1Returns15 ==
    Done /\ OnGrid(P3_EXAMPLE1) => result = U64Decimal(<<1, 5>>)

\* The run on the first board has returned, from the three sheep of row 0.
C2_Witness ==
    /\ Done
    /\ OnGrid(P3_EXAMPLE1)
    /\ sheep = [c \in 0..2 |-> 0]
    /\ dragon = Pos(3, 1)

\* C3.  On the board .SS.S / #...# / ...#. / ##..# / .#### / ##D.# of five
\* columns and six rows count_winning_games returns 4406.
C3_Example4Returns4406 ==
    Done /\ OnGrid(P3_EXAMPLE4) => result = U64Decimal(<<4, 4, 0, 6>>)

\* The run on the fourth board has returned.
C3_Witness ==
    /\ Done
    /\ OnGrid(P3_EXAMPLE4)
    /\ board.width = 5
    /\ board.height = 6

\* C4.  On the board SSS.S / ..... / #.#.# / .#.#. / #.D.# count_winning_games
\* returns 13,033,988,838, and no sum computed on the way leaves the range of
\* a 64-bit unsigned integer.
C4_Example5ReturnsWithoutOverflow ==
    OnGrid(P3_EXAMPLE5) =>
        /\ ~overflow
        /\ Done => result = U64Decimal(<<1, 3, 0, 3, 3, 9, 8, 8, 8, 3, 8>>)

\* The run on the fifth board has returned a count that does not fit 32 bits.
C4_Witness ==
    /\ Done
    /\ OnGrid(P3_EXAMPLE5)
    /\ result[3] > 0

\* C5.  On the board ..S.. / ..... / ..#.. / ..... / ..D.. count_winning_games
\* returns 44.
C5_Example3Returns44 ==
    Done /\ OnGrid(P3_EXAMPLE3) => result = U64Decimal(<<4, 4>>)

\* The run on the third board has returned: one sheep, at row 0 of column 2, one
\* blocked cell, at row 2 of column 2, and the dragon at row 4 of column 2.
C5_Witness ==
    /\ Done
    /\ OnGrid(P3_EXAMPLE3)
    /\ sheep = [c \in 0..4 |-> IF c = 2 THEN 0 ELSE NONE]
    /\ {i \in DOMAIN board.blocked : board.blocked[i]} = {into_index(Pos(2, 2), 5)}
    /\ dragon = Pos(4, 2)

\* C6.  On the board SSS / ..# / ..# / .## / .D# count_winning_games returns 8.
C6_Example2Returns8 ==
    Done /\ OnGrid(P3_EXAMPLE2) => result = U64Decimal(<<8>>)

\* The run on the second board has returned.
C6_Witness ==
    /\ Done
    /\ OnGrid(P3_EXAMPLE2)
    /\ board.height = 5
    /\ Live(sheep) = 3

C8_ReturnRestoresState ==
    [][Len(stack') < Len(stack) =>
            /\ dragon' = Top(Machine).cache_key[2]
            /\ sheep' = Top(Machine).cache_key[3]]_vars

\* dragon_moves has returned to sheep_moves a count it made by moving the
\* dragon and capturing sheep.
C8_Witness ==
    /\ InSheep(Machine, "moved")
    /\ ret # U64Zero
    /\ CacheGet(seen, cache_key(TRUE, dragon, sheep)) = ret

(***************************************************************************)
(* C9.  Every value served from the table equals the count the recursion    *)
(* without a table computes for the turn and state the call is made in.     *)
(***************************************************************************)
C9_CacheServesPlainCount ==
    /\ SheepCacheHitEnabled(board, safe, Machine) =>
            CacheGet(seen, Top(Machine).cache_key)
                = U64Of(PlaysFromSheepTurn(board, safe, dragon, sheep, FALSE))
    /\ DragonCacheHitEnabled(board, safe, Machine) =>
            CacheGet(seen, Top(Machine).cache_key)
                = U64Of(PlaysFromDragonTurn(board, safe, dragon, sheep, FALSE))

\* A call of sheep_moves is about to be served a count that is not 0.
C9_Witness ==
    /\ SheepCacheHitEnabled(board, safe, Machine)
    /\ CacheGet(seen, Top(Machine).cache_key) # U64Zero

(***************************************************************************)
(* C10.  Along the path of the recursion, from the first call to the        *)
(* innermost, the number of columns that hold a sheep never grows from one  *)
(* call to the next.                                                        *)
(***************************************************************************)
C10_LiveSheepNeverGrow ==
    /\ \A i \in 1..(Len(stack) - 1) :
            Live(stack[i + 1].cache_key[3]) <= Live(stack[i].cache_key[3])
    /\ Len(stack) > 0 => Live(sheep) <= Live(Top(Machine).cache_key[3])

\* A path that has reached a terminal state: the innermost call is entered
\* with no sheep left, from a first call with two or more.
C10_Witness ==
    /\ Len(stack) >= 2
    /\ InSheep(Machine, "entry")
    /\ AllGone(sheep)
    /\ Live(stack[1].cache_key[3]) >= 2

(***************************************************************************)
(* C11.  The search terminates: count_winning_games returns, and along the  *)
(* chain of nested calls a natural number strictly decreases from each call *)
(* to the one it makes.  The number is built from the rows the sheep still  *)
(* have below them; a double move leaves those unchanged, and the dragon    *)
(* then leaves the one cell from which it blocks the sheep.                 *)
(***************************************************************************)
\* The rows below the sheep of the vector s, summed over the columns.
RowsLeft(b, s) ==
    SumFn([c \in {x \in DOMAIN s : s[x] # NONE} |-> b.height - s[c]])

\* Sheep are left and none of them may move: the state of a double move.
NoLegalMove(b, d, s) == ~AllGone(s) /\ LegalColumns(b, d, s) = {}

\* The quantity of a call: of the frame f on the board b.
Rank(b, f) ==
    LET d == f.cache_key[2]
        s == f.cache_key[3]
    IN  4 * RowsLeft(b, s)
          + (IF f.fn = "sheep_moves"
             THEN (IF NoLegalMove(b, d, s) THEN 2 ELSE 0)
             ELSE (IF NoLegalMove(b, d, s) THEN 1 ELSE 3))

RankDecreases ==
    \A i \in 1..(Len(stack) - 1) : Rank(board, stack[i + 1]) < Rank(board, stack[i])

C11_SearchTerminates == [](RankDecreases) /\ <>Done

\* A chain that passes through the double-move rule: sheep_moves has called
\* dragon_moves from the unchanged state, which has called sheep_moves.
C11_Witness ==
    /\ Len(stack) >= 3
    /\ stack[Len(stack) - 2].fn = "sheep_moves"
    /\ stack[Len(stack) - 2].at = "double"
    /\ InSheep(Machine, "entry")
    /\ ~AllGone(sheep)

(***************************************************************************)
(* The rules of the two turns, as properties of the steps of the loops.     *)
(***************************************************************************)
\* The frame that called the innermost one.
Caller == stack[Len(stack) - 1]

\* The loop of sheep_moves is at a column that holds a sheep.
AtLiveSheep == InSheepLoop(board, Machine) /\ sheep[Top(Machine).c] # NONE

\* The step is `continue`: the frame goes to the next column, and nothing else
\* changes.
Continues ==
    /\ stack' = [stack EXCEPT ![Len(stack)].c = @ + 1]
    /\ UNCHANGED <<dragon, sheep, seen>>

\* The step records a legal destination in the frame it is taken in.
RecordsMove == stack'[Len(stack)].any_move

\* C12.  In a sheep turn, a sheep whose next cell is the dragon's is skipped,
\* without a branch and without being recorded as having a legal destination,
\* if and only if that cell is not blocked; a sheep whose next cell is not the
\* dragon's, or is the dragon's on a blocked cell, is recorded as having one.
C12_IllegalMoveRule ==
    [][AtLiveSheep =>
          IF SheepTarget(Machine) = dragon /\ ~is_blocked(board, dragon)
          THEN Continues
          ELSE RecordsMove]_vars

\* A sheep has moved onto the cell of the dragon, which is blocked, and
\* dragon_moves has been called.
C12_Witness ==
    /\ Len(stack) >= 2
    /\ InDragon(Machine, "entry")
    /\ Caller.at = "moved"
    /\ has_sheep_at(sheep, dragon)
    /\ Pos(sheep[Caller.c], Caller.c) = dragon
    /\ is_blocked(board, dragon)

\* C13.  In a sheep turn with sheep left, dragon_moves is called from the
\* unchanged state exactly when no sheep has a legal destination, an escape
\* being one; the total of the state is then what that call returns.
C13_DoubleMoveRule ==
    [][/\ InSheep(Machine, "loop") /\ Top(Machine).c >= board.width =>
             IF LegalColumns(board, dragon, sheep) = {}
             THEN /\ stack' = Append([stack EXCEPT ![Len(stack)].at = "double"],
                                      DragonFrame(Machine))
                  /\ stack'[Len(stack')].cache_key = <<TRUE, dragon, sheep>>
                  /\ UNCHANGED <<dragon, sheep, seen>>
             ELSE Len(stack') < Len(stack)
       /\ InSheep(Machine, "double") =>
             /\ Len(stack') < Len(stack)
             /\ ret' = ret
             /\ CacheGet(seen', Top(Machine).cache_key) = ret]_vars

\* A double move has been made and has returned a count that is not 0.
C13_Witness ==
    /\ InSheep(Machine, "double")
    /\ NoLegalMove(board, dragon, sheep)
    /\ ret # U64Zero

\* The targets a frame of dragon_moves has made its calls for.
Visited(f) ==
    {MoveTarget(f.pos, i) :
        i \in {j \in 0..(f.index - 1) : MoveInBounds(f.pos, board.width, board.height, j)}}

\* C14.  In a dragon turn every knight destination on the board is one branch.
\* In a branch the dragon moves to the destination, and the sheep of the
\* destination's column is removed if and only if it is on the destination and
\* the destination is not blocked.
C14_CaptureRule ==
    [][/\ InDragon(Machine, "loop") /\ Visited(Top(Machine)) # KnightTargets(board, Top(Machine).pos) =>
             \E pos1 \in KnightTargets(board, Top(Machine).pos) \ Visited(Top(Machine)) :
                 /\ Visited(stack'[Len(stack)]) = Visited(Top(Machine)) \cup {pos1}
                 /\ Len(stack') = Len(stack) + 1
                 /\ stack'[Len(stack')].fn = "sheep_moves"
                 /\ dragon' = pos1
                 /\ sheep' = IF sheep[pos1.col] = pos1.row /\ ~is_blocked(board, pos1)
                              THEN [sheep EXCEPT ![pos1.col] = NONE]
                              ELSE sheep
       /\ InDragon(Machine, "loop") /\ Len(stack') < Len(stack) =>
             Visited(Top(Machine)) = KnightTargets(board, Top(Machine).pos)]_vars

\* The dragon has moved onto a sheep that stands on a blocked cell, and the
\* sheep is still there.
C14_Witness ==
    /\ Len(stack) >= 2
    /\ InSheep(Machine, "entry")
    /\ Caller.at = "advanced"
    /\ has_sheep_at(sheep, dragon)
    /\ is_blocked(board, dragon)

\* C15.  When the next row of a sheep is the height of the board, or is at or
\* past the threshold of its column, the move is recorded as a legal
\* destination, so that no double move follows, but no call is made and
\* nothing is added to the count of the turn.
C15_EscapeRule ==
    [][/\ AtLiveSheep
       /\ ~(SheepTarget(Machine) = dragon /\ ~is_blocked(board, dragon))
       /\ \/ sheep[Top(Machine).c] + 1 = board.height
          \/ sheep[Top(Machine).c] + 1 >= safe[Top(Machine).c]
       => /\ RecordsMove
          /\ Len(stack') = Len(stack)
          /\ stack'[Len(stack)].count = Top(Machine).count
          /\ stack'[Len(stack)].c = Top(Machine).c + 1
          /\ stack'[Len(stack)].at = "loop"]_vars

\* sheep_moves is at the end of its loop with a move recorded and nothing
\* counted: every sheep that could move escaped, and no double move follows.
C15_Witness ==
    /\ InSheep(Machine, "loop")
    /\ Top(Machine).c >= board.width
    /\ Top(Machine).any_move
    /\ Top(Machine).count = U64Zero
    /\ LegalColumns(board, dragon, sheep) # {}
    /\ \A c \in LegalColumns(board, dragon, sheep) :
           Escapes(board, safe, Pos(sheep[c] + 1, c))
    /\ ~SheepDoubleMoveEnabled(board, safe, Machine)

\* The loop of sheep_moves is at a sheep whose move escapes.
EscapeCase ==
    /\ AtLiveSheep
    /\ ~(SheepTarget(Machine) = dragon /\ ~is_blocked(board, dragon))
    /\ \/ sheep[Top(Machine).c] + 1 = board.height
       \/ sheep[Top(Machine).c] + 1 >= safe[Top(Machine).c]

\* Sheep can move, and every move of a sheep is an escape.
OnlyEscapes(b, sf, d, s) ==
    /\ LegalColumns(b, d, s) # {}
    /\ \A c \in LegalColumns(b, d, s) :
           s[c] + 1 = b.height \/ s[c] + 1 >= sf[c]

(***************************************************************************)
(* C16.  As claimed: an escaping sheep is removed from play, its column     *)
(* entry becoming NONE, and the play goes on with the other sheep.  The     *)
(* code leaves the entry as it is and ends the branch at the escape.        *)
(***************************************************************************)
C16_AsClaimed ==
    [][EscapeCase => sheep' = [sheep EXCEPT ![Top(Machine).c] = NONE]]_vars

\* C16, amended: an escaping sheep is not removed from play: its column entry
\* keeps its row and no call is made for the move, so that the play is not
\* continued past an escape; a sheep turn in which every move is an escape
\* returns 0.
C16_EscapeEndsBranch ==
    [][/\ EscapeCase =>
             /\ UNCHANGED <<dragon, sheep>>
             /\ Len(stack') = Len(stack)
       /\ /\ InSheep(Machine, "loop")
          /\ Top(Machine).c >= board.width
          /\ OnlyEscapes(board, safe, dragon, sheep)
          => /\ Len(stack') < Len(stack)
             /\ ret' = U64Zero
             /\ UNCHANGED <<dragon, sheep>>]_vars

\* sheep_moves has returned 0 to dragon_moves from a state where sheep were
\* left and every move was an escape.
C16_Witness ==
    /\ InDragon(Machine, "advanced")
    /\ Live(sheep) >= 1
    /\ OnlyEscapes(board, safe, dragon, sheep)
    /\ ret = U64Zero
    /\ CacheGet(seen, cache_key(FALSE, dragon, sheep)) = U64Zero

\* C17.  A column's entry becomes NONE only in dragon_moves, when the dragon
\* lands on the sheep of the column on a cell that is not blocked, never in
\* sheep_moves; and the count returned is the number of play sequences in
\* which the dragon captures every sheep, a sequence in which a sheep escapes
\* counting for nothing.
C17_WonByCapturesOnly ==
    [][/\ \A c \in DOMAIN sheep :
             sheep[c] # NONE /\ sheep'[c] = NONE =>
                 /\ InDragon(Machine, "loop")
                 /\ dragon' = Pos(sheep[c], c)
                 /\ ~is_blocked(board, dragon')
       /\ pc # "done" /\ pc' = "done" =>
             result' = U64Of(PlaysFromSheepTurn(board, safe, board.dragon,
                                                InitialSheep(board), FALSE))]_vars

\* The dragon has landed on a sheep and captured it: sheep_moves is entered
\* with the column's entry NONE.
C17_Witness ==
    /\ Len(stack) >= 2
    /\ InSheep(Machine, "entry")
    /\ Caller.at = "captured"
    /\ sheep[dragon.col] = NONE
    /\ Caller.cache_key[3][dragon.col] = dragon.row

\* The cells of column c from row r to the last row are all blocked, or all open.
SuffixBlocked(b, c, r) == \A q \in r..(b.height - 1) : is_blocked(b, Pos(q, c))

SuffixOpen(b, c, r) == \A q \in r..(b.height - 1) : ~is_blocked(b, Pos(q, c))

\* The least element of a set of numbers that is not empty.
Least(S) == CHOOSE r \in S : \A q \in S : r <= q

\* The loop of sheep_moves is at a sheep that may move.
AtLegalMove ==
    /\ AtLiveSheep
    /\ ~(SheepTarget(Machine) = dragon /\ ~is_blocked(board, dragon))

(***************************************************************************)
(* C18.  As claimed: the threshold of a column is the smallest row r such   *)
(* that every cell of the column from r to the last row is unblocked, and a *)
(* sheep is pruned as escaped exactly when its next row is at or past it.   *)
(* Game::new looks for the last cell that is not blocked: the threshold is  *)
(* the row where the blocked cells that end the column begin.               *)
(***************************************************************************)
C18_AsClaimed ==
    /\ \A c \in DOMAIN safe :
           safe[c] = Least({r \in 0..board.height : SuffixOpen(board, c, r)})
    /\ AtLegalMove =>
           (SheepEscapeEnabled(board, safe, Machine)
               <=> sheep[Top(Machine).c] + 1 >= safe[Top(Machine).c])

\* C18, amended: the threshold of a column is the smallest row r such that
\* every cell of the column from r to the last row is blocked, which is the
\* height when the last cell is not blocked, and it is 99 for a column that is
\* blocked in every row; a sheep is pruned as escaped exactly when its next
\* row is at or past the threshold of its column.
C18_ThresholdIsBlockedSuffix ==
    /\ \A c \in DOMAIN safe :
           safe[c] = IF SuffixBlocked(board, c, 0) THEN NONE
                     ELSE Least({r \in 0..board.height : SuffixBlocked(board, c, r)})
    /\ AtLegalMove =>
           (SheepEscapeEnabled(board, safe, Machine)
               <=> sheep[Top(Machine).c] + 1 >= safe[Top(Machine).c])

\* On a board with a column that is blocked in every row, a sheep is about to
\* be pruned on the first blocked cell of the end of its column, above the
\* last row.
C18_Witness ==
    /\ \E c \in DOMAIN safe : safe[c] = NONE
    /\ AtLegalMove
    /\ SheepEscapeEnabled(board, safe, Machine)
    /\ sheep[Top(Machine).c] + 1 = safe[Top(Machine).c]
    /\ safe[Top(Machine).c] < board.height

\* Thresholds with which is_safe never holds: every column has 99.
NoThreshold(b) == [c \in 0..(b.width - 1) |-> NONE]

\* C19.  The pruning by is_safe does not change the result: for every board,
\* a board with a column blocked in every row included, the count returned is
\* the count of the search without that test, in which a move of a sheep is
\* cut only when its next row is the height of the board.
C19_PruningKeepsCount ==
    Done => result = U64Of(PlaysFromSheepTurn(board, NoThreshold(board), board.dragon,
                                              InitialSheep(board), FALSE))

\* A run has returned a count that is not 0 on a board where one column is
\* blocked in every row and the sheep of another has blocked cells at the end
\* of its column.
C19_Witness ==
    /\ Done
    /\ result # U64Zero
    /\ \E c \in DOMAIN safe : safe[c] = NONE
    /\ \E c \in DOMAIN safe : sheep[c] # NONE /\ safe[c] < board.height

\* The keys a table holds.
Stored(cache) ==
    UNION {UNION {{<<t, p, s>> : s \in DOMAIN cache[t][p]} : p \in DOMAIN cache[t]} :
           t \in DOMAIN cache}

\* C20.  The table only grows, and holds finished results only: a call looks
\* its key up before it expands its state, and returns what is stored when
\* the key is there; a key is inserted when the call that computed the count
\* of its whole subtree returns, with that count; it is not in the table
\* when it is inserted; and what is stored under a key never changes.
C20_CacheAppendOnly ==
    [][pc = "running" /\ Len(stack) > 0 =>
          LET key == Top(Machine).cache_key
              old == seen[key[1]][key[2]]
              new == seen'[key[1]][key[2]]
          IN  /\ \A t \in BOOLEAN, p \in Positions(board) :
                     \/ seen'[t][p] = seen[t][p]
                     \/ /\ <<t, p>> = <<key[1], key[2]>>
                        /\ \A s \in DOMAIN old : s \in DOMAIN new /\ new[s] = old[s]
              /\ Top(Machine).at = "entry" /\ CacheGet(seen, key) # NoEntry =>
                     /\ Len(stack') < Len(stack)
                     /\ ret' = CacheGet(seen, key)
                     /\ seen' = seen
              /\ seen' # seen =>
                     /\ DOMAIN new = DOMAIN old \cup {key[3]}
                     /\ CacheGet(seen, key) = NoEntry
                     /\ Top(Machine).at \in {"loop", "double"}
                     /\ Len(stack') < Len(stack)
                     /\ CacheGet(seen', key) = ret']_vars

\* A search has returned with a table that holds counts of both turns, after
\* calls were served from it.
C20_Witness ==
    /\ Done
    /\ \E k \in Stored(seen) : k[1] /\ CacheGet(seen, k) # U64Zero
    /\ \E k \in Stored(seen) : ~k[1] /\ CacheGet(seen, k) # U64Zero
    /\ Cardinality(Stored(seen)) >= 2 * board.width * board.height

(***************************************************************************)
(* C21.  The graph of the states the search goes through has no cycle: the  *)
(* calls on the stack have keys that differ from one another, so that no    *)
(* key is entered while a call for it is in progress, and the key of a call *)
(* that is past its lookup is not in the table: a lookup never finds, and   *)
(* never would find, the key of a computation in progress.                  *)
(***************************************************************************)
C21_NoKeyReentered ==
    /\ \A i, j \in 1..Len(stack) :
           i < j => stack[i].cache_key # stack[j].cache_key
    /\ \A i \in 1..Len(stack) :
           (i < Len(stack) \/ stack[i].at # "entry") =>
               CacheGet(seen, stack[i].cache_key) = NoEntry

\* A call of sheep_moves is at its lookup, four calls deep or more, in the
\* state of a call in progress but for the dragon's position: the dragon has
\* moved and the sheep are where they were.
C21_Witness ==
    /\ Len(stack) >= 4
    /\ InSheep(Machine, "entry")
    /\ \E i \in 1..(Len(stack) - 1) :
           /\ stack[i].fn = "sheep_moves"
           /\ stack[i].cache_key[3] = sheep
           /\ stack[i].cache_key[2] # dragon

\* The frame f of sheep_moves has made the call of line 496.
InDoubleMove(f) == f.fn = "sheep_moves" /\ f.at = "double"

(***************************************************************************)
(* C22.  A double move is made only from a state with exactly one sheep,    *)
(* which stands in the cell directly above the dragon's, the dragon's cell  *)
(* not being blocked; and the sheep turn that follows the dragon's move     *)
(* after a double move does not make a double move.                         *)
(***************************************************************************)
C22_DoubleMoveStates ==
    \A i \in 1..Len(stack) :
        InDoubleMove(stack[i]) =>
            LET d == stack[i].cache_key[2]
                s == stack[i].cache_key[3]
            IN  /\ Live(s) = 1
                /\ \E c \in DOMAIN s : s[c] # NONE /\ Pos(s[c] + 1, c) = d
                /\ ~is_blocked(board, d)
                /\ i + 2 <= Len(stack) => ~InDoubleMove(stack[i + 2])

\* After a double move and the dragon's move, the sheep turn has gone through
\* its loop and the sheep had a move: it returns without a double move.
C22_Witness ==
    /\ Len(stack) >= 3
    /\ InDoubleMove(stack[Len(stack) - 2])
    /\ SheepFinishEnabled(board, safe, Machine)
    /\ Live(sheep) = 1

(***************************************************************************)
(* C23.  Whose turn it is is part of the key.  The key of a sheep turn and  *)
(* the key of a dragon turn in the same state, with the same dragon         *)
(* position and the same sheep rows, differ; a call stores only under a key *)
(* of its own turn, leaving every entry of the other turn as it was; and a  *)
(* lookup returns only what was stored under a key of the turn that looks   *)
(* up.                                                                      *)
(***************************************************************************)
C23_TurnIsPartOfKey ==
    [][pc = "running" /\ Len(stack) > 0 =>
          LET f    == Top(Machine)
              turn == f.fn = "dragon_moves"
          IN  /\ cache_key(TRUE, dragon, sheep) # cache_key(FALSE, dragon, sheep)
              /\ f.cache_key[1] = turn
              /\ \A p \in Positions(board) : seen'[~turn][p] = seen[~turn][p]
              /\ f.at = "entry" /\ CacheGet(seen, f.cache_key) # NoEntry =>
                     /\ sheep \in DOMAIN seen[turn][dragon]
                     /\ ret' = seen[turn][dragon][sheep]]_vars

\* A search has returned with a table that holds, for one dragon position
\* and one sheep vector, a count for the sheep's turn and another count for
\* the dragon's turn.
C23_Witness ==
    /\ Done
    /\ \E p \in Positions(board) :
           \E s \in DOMAIN seen[TRUE][p] \cap DOMAIN seen[FALSE][p] :
               seen[TRUE][p][s] # seen[FALSE][p][s]

(***************************************************************************)
(* C24.  The search starts with a sheep turn and the turns alternate along  *)
(* every chain of calls: the first call is of sheep_moves, sheep_moves      *)
(* calls dragon_moves only and dragon_moves calls sheep_moves only.  The    *)
(* dragon moves again with the sheep where they were, no sheep having       *)
(* moved, only when the call between is at the double move; a sheep turn    *)
(* that calls from its loop has moved a sheep.                              *)
(***************************************************************************)
C24_TurnsAlternate ==
    /\ Len(stack) > 0 => stack[1].fn = "sheep_moves"
    /\ \A i \in 1..(Len(stack) - 1) :
           /\ stack[i].fn = "sheep_moves" => stack[i + 1].fn = "dragon_moves"
           /\ stack[i].fn = "dragon_moves" => stack[i + 1].fn = "sheep_moves"
           /\ stack[i].fn = "sheep_moves" =>
                  /\ stack[i].at \in {"moved", "double"}
                  /\ stack[i + 1].cache_key[2] = stack[i].cache_key[2]
                  /\ stack[i + 1].cache_key[3] = stack[i].cache_key[3]
                         <=> InDoubleMove(stack[i])

\* A chain of six calls or more in which a sheep turn has moved a sheep and a
\* later one has passed: the dragon is at its lookup after the double move.
C24_Witness ==
    /\ Len(stack) >= 6
    /\ InDragon(Machine, "entry")
    /\ InDoubleMove(Caller)
    /\ \E i \in 1..(Len(stack) - 2) : stack[i].fn = "sheep_moves" /\ stack[i].at = "moved"

\* The columns of the loop of sheep_moves for which line 491 makes its call:
\* the sheep may move and does not escape.
BranchColumns(b, sf, d, s) ==
    {c \in LegalColumns(b, d, s) : ~Escapes(b, sf, Pos(s[c] + 1, c))}

\* What the branches of the columns below n have returned, added up as line
\* 491 adds them; a branch that has returned has its count in the table, under
\* the key of the state that line 490 makes.
RECURSIVE BranchSum(_, _, _, _, _, _)
BranchSum(b, sf, cache, d, s, n) ==
    IF n = 0 THEN U64Zero
    ELSE LET rest == BranchSum(b, sf, cache, d, s, n - 1)
         IN  IF (n - 1) \in BranchColumns(b, sf, d, s)
             THEN U64Add(rest, CacheGet(cache, cache_key(TRUE, d,
                                       [s EXCEPT ![n - 1] = @ + 1]))).val
             ELSE rest

(***************************************************************************)
(* C25.  The branches of a sheep turn are siblings.  The state of a branch  *)
(* is the state of the turn but for one column, whose row is one more; the  *)
(* dragon and the other columns are those of the turn.  Between branches    *)
(* the state is that of the turn again, and the count of the turn is the    *)
(* sum of what its branches have returned; the turn passed on by a double   *)
(* move is not a branch.                                                    *)
(***************************************************************************)
C25_BranchesAreSiblings ==
    /\ \A i \in 1..(Len(stack) - 1) :
           stack[i].fn = "sheep_moves" /\ stack[i].at = "moved" =>
               LET p == stack[i].cache_key
                   q == stack[i + 1].cache_key
               IN  /\ stack[i].c \in BranchColumns(board, safe, p[2], p[3])
                   /\ q[2] = p[2]
                   /\ q[3] = [p[3] EXCEPT ![stack[i].c] = @ + 1]
                   /\ \A c \in DOMAIN p[3] : c # stack[i].c => q[3][c] = p[3][c]
                   /\ q[3][stack[i].c] = p[3][stack[i].c] + 1
    /\ InSheep(Machine, "loop") =>
           LET f == Top(Machine)
           IN  /\ dragon = f.cache_key[2]
               /\ sheep = f.cache_key[3]
               /\ f.count = BranchSum(board, safe, seen, dragon, sheep, f.c)

\* A sheep turn has gone through its loop with two branches, each of which
\* returned a count that is not 0.
C25_Witness ==
    /\ SheepFinishEnabled(board, safe, Machine)
    /\ Cardinality(BranchColumns(board, safe, dragon, sheep)) >= 2
    /\ \A c \in BranchColumns(board, safe, dragon, sheep) :
           CacheGet(seen, cache_key(TRUE, dragon, [sheep EXCEPT ![c] = @ + 1]))
               \notin {NoEntry, U64Zero}
    /\ Top(Machine).count = BranchSum(board, safe, seen, dragon, sheep, board.width)

(***************************************************************************)
(* The iterator on its own.  SpecMoves draws a board of any shape up to     *)
(* MaxSide by MaxSide, with every cell open or every cell blocked, and an   *)
(* origin on it; Board::dragon_moves makes the iterator and next is called  *)
(* until it returns None.  The iterator is the one frame of the stack, with *)
(* the fields of the struct DragonMoves, and `result` is the sequence of    *)
(* the items returned so far.                                               *)
(***************************************************************************)
MaxSide == 5

InitMoves ==
    \E w \in 1..MaxSide, h \in 1..MaxSide, all_blocked \in BOOLEAN :
        \E r \in 0..(h - 1), c \in 0..(w - 1) :
            /\ board = [width |-> w, height |-> h, dragon |-> Pos(r, c),
                        sheep |-> [i \in 0..(w * h - 1) |-> FALSE],
                        blocked |-> [i \in 0..(w * h - 1) |-> all_blocked]]
            /\ dragon = Pos(r, c)
            /\ sheep = InitialSheep(board)
            /\ safe = InitialSafe(board)
            /\ seen = NoEntry
            /\ stack = <<>>
            /\ ret = U64Zero
            /\ overflow = FALSE
            /\ entry = "Board::dragon_moves"
            /\ pc = "start"
            /\ result = <<>>

\* Board::dragon_moves and DragonMoves::new: the iterator at index 0.
DragonMovesNew ==
    /\ entry = "Board::dragon_moves"
    /\ pc = "start"
    /\ pc' = "running"
    /\ stack' = <<[fn |-> "DragonMoves", origin |-> dragon, width |-> board.width,
                   height |-> board.height, index |-> 0]>>
    /\ UNCHANGED <<board, dragon, sheep, safe, seen, ret, overflow, entry, result>>

\* DragonMoves::next returns Some: the index passes the entry it returns.
DragonMovesNextSome ==
    /\ entry = "Board::dragon_moves"
    /\ pc = "running"
    /\ LET it == stack[1]
           i  == NextMoveIndex(it.origin, it.width, it.height, it.index)
       IN  /\ i < NumMoves
           /\ stack' = <<[it EXCEPT !.index = i + 1]>>
           /\ result' = Append(result, MoveTarget(it.origin, i))
    /\ UNCHANGED <<board, dragon, sheep, safe, seen, ret, overflow, entry, pc>>

\* DragonMoves::next returns None: the index has reached the end of the table.
DragonMovesNextNone ==
    /\ entry = "Board::dragon_moves"
    /\ pc = "running"
    /\ LET it == stack[1]
       IN  /\ NextMoveIndex(it.origin, it.width, it.height, it.index) >= NumMoves
           /\ stack' = <<[it EXCEPT !.index = NumMoves]>>
    /\ pc' = "done"
    /\ UNCHANGED <<board, dragon, sheep, safe, seen, ret, overflow, entry, result>>

NextMoves ==
    \/ DragonMovesNew
    \/ DragonMovesNextSome
    \/ DragonMovesNextNone

SpecMoves == InitMoves /\ [][NextMoves]_vars

\* The eight offsets of a knight: one step along one axis and two along the other.
KnightOffsets ==
    {o \in (-2..2) \X (-2..2) :
        \/ o[1] \in {-1, 1} /\ o[2] \in {-2, 2}
        \/ o[1] \in {-2, 2} /\ o[2] \in {-1, 1}}

\* The cell at column offset o[1] and row offset o[2] from origin.
OffsetCell(origin, o) == Pos(origin.row + o[2], origin.col + o[1])

(***************************************************************************)
(* C26.  From an origin on the board the iterator returns exactly the cells *)
(* origin + offset, for the eight knight offsets, that are on the board:    *)
(* each once, eight at most, in the order of the table of offsets, and      *)
(* whether the cells are blocked or not.                                    *)
(***************************************************************************)
C26_IteratorYieldsKnightCells ==
    entry = "Board::dragon_moves" =>
        /\ Len(result) <= 8
        /\ \A i, j \in 1..Len(result) : i < j =>
               /\ result[i] # result[j]
               /\ \E k, l \in 1..NumMoves :
                      /\ k < l
                      /\ OffsetCell(dragon, MOVES[k]) = result[i]
                      /\ OffsetCell(dragon, MOVES[l]) = result[j]
        /\ \A i \in 1..Len(result) :
               /\ result[i] \in Positions(board)
               /\ \E o \in KnightOffsets : result[i] = OffsetCell(dragon, o)
        /\ pc = "done" =>
               {result[i] : i \in 1..Len(result)}
                   = {OffsetCell(dragon, o) : o \in KnightOffsets} \cap Positions(board)

\* The iterator has returned all eight cells, in the order of the table, on a
\* board whose cells are all blocked.
C26_Witness ==
    /\ entry = "Board::dragon_moves"
    /\ pc = "done"
    /\ result = [k \in 1..NumMoves |-> OffsetCell(dragon, MOVES[k])]
    /\ \A i \in 1..Len(result) : is_blocked(board, result[i])

(***************************************************************************)
(* The search with the order of enumeration as a parameter.  An order o is  *)
(* [moves |-> the table of offsets, cols |-> the columns], both sequences:  *)
(* dragon_moves goes through o.moves as DragonMoves::next goes through      *)
(* MOVES, and sheep_moves through o.cols as line 473 goes through           *)
(* 0..width-1.  The machine is the one above, with the same frames; the     *)
(* field c of a frame of sheep_moves and the field index of a frame of      *)
(* dragon_moves count the places of the order that are done.                *)
(***************************************************************************)
\* The order of the source.
SourceOrder(b) == [moves |-> MOVES, cols |-> [k \in 1..b.width |-> k - 1]]

\* DragonMoves::next, lines 78-81, for the offset off.
OffsetInBounds(origin, width, height, off) ==
    LET c1 == origin.col + off[1]
        r1 == origin.row + off[2]
    IN  /\ c1 >= 0 /\ c1 <= U8Max /\ c1 < width
        /\ r1 >= 0 /\ r1 <= U8Max /\ r1 < height

\* DragonMoves::next from place index of the table o.moves: the place of the
\* item it returns, or the length of the table when it returns None.
RECURSIVE NextOffsetIn(_, _, _, _, _)
NextOffsetIn(o, origin, width, height, index) ==
    IF index >= Len(o.moves) THEN Len(o.moves)
    ELSE IF OffsetInBounds(origin, width, height, o.moves[index + 1]) THEN index
    ELSE NextOffsetIn(o, origin, width, height, index + 1)

\* One statement of sheep_moves, lines 463-500, in the frame f.
SheepStepIn(o, b, sf, m, f) ==
    CASE f.at = "entry" ->
            IF CacheGet(m.seen, f.cache_key) # NoEntry
            THEN Return(m, CacheGet(m.seen, f.cache_key))
            ELSE IF AllGone(m.sheep)
            THEN Return(m, U64One)
            ELSE SetTop(m, [f EXCEPT !.at = "loop", !.count = U64Zero,
                                     !.any_move = FALSE, !.c = 0])
      [] f.at = "loop" /\ f.c < Len(o.cols) ->
            LET c    == o.cols[f.c + 1]
                r    == m.sheep[c]
                pos1 == Pos(r + 1, c)
                m1   == SetTop(m, [f EXCEPT !.any_move = TRUE, !.r = r, !.at = "moved"])
            IN  IF r = NONE \/ IntoDragon(b, m.dragon, pos1)
                THEN NextColumn(m, f)
                ELSE IF Escapes(b, sf, pos1)
                THEN NextColumn(m, [f EXCEPT !.any_move = TRUE])
                ELSE CallDragon([m1 EXCEPT !.sheep[c] = r + 1])
      [] f.at = "loop" /\ f.c >= Len(o.cols) ->
            IF f.any_move
            THEN Return([m EXCEPT !.seen = CacheInsert(@, f.cache_key, f.count)], f.count)
            ELSE CallDragon(SetTop(m, [f EXCEPT !.at = "double"]))
      [] f.at = "moved" ->
            LET add == AddRet(m, f)
            IN  SetTop([add.m EXCEPT !.sheep[o.cols[f.c + 1]] = f.r],
                       [f EXCEPT !.count = add.count, !.c = @ + 1, !.at = "loop"])
      [] f.at = "double" ->
            LET add == AddRet(m, f)
            IN  Return([add.m EXCEPT !.seen = CacheInsert(@, f.cache_key, add.count)],
                       add.count)

\* One statement of dragon_moves, lines 441-461, in the frame f.
DragonStepIn(o, b, sf, m, f) ==
    CASE f.at = "entry" ->
            IF CacheGet(m.seen, f.cache_key) # NoEntry
            THEN Return(m, CacheGet(m.seen, f.cache_key))
            ELSE SetTop(m, [f EXCEPT !.at = "loop", !.pos = m.dragon,
                                     !.count = U64Zero, !.index = 0])
      [] f.at = "loop" ->
            LET i    == NextOffsetIn(o, f.pos, b.width, b.height, f.index)
                pos1 == OffsetCell(f.pos, o.moves[i + 1])
                hit  == SetTop(m, [f EXCEPT !.index = i + 1, !.pos1 = pos1, !.at = "captured"])
                miss == SetTop(m, [f EXCEPT !.index = i + 1, !.pos1 = pos1, !.at = "advanced"])
            IN  IF i >= Len(o.moves)
                THEN Return([m EXCEPT !.dragon = f.pos,
                                      !.seen = CacheInsert(@, f.cache_key, f.count)],
                            f.count)
                ELSE IF Captures(b, m.sheep, pos1)
                THEN CallSheep([hit EXCEPT !.dragon = pos1, !.sheep[pos1.col] = NONE])
                ELSE CallSheep([miss EXCEPT !.dragon = pos1])
      [] f.at = "captured" ->
            LET add == AddRet(m, f)
            IN  SetTop([add.m EXCEPT !.sheep[f.pos1.col] = f.pos1.row],
                       [f EXCEPT !.count = add.count, !.at = "loop"])
      [] f.at = "advanced" ->
            LET add == AddRet(m, f)
            IN  SetTop(add.m, [f EXCEPT !.count = add.count, !.at = "loop"])

StepIn(o, b, sf, m) ==
    IF Len(m.stack) = 0 THEN m
    ELSE IF Top(m).fn = "sheep_moves" THEN SheepStepIn(o, b, sf, m, Top(m))
    ELSE DragonStepIn(o, b, sf, m, Top(m))

\* Steps from m until the first call has returned, n at most.
RECURSIVE RunIn(_, _, _, _, _)
RunIn(o, b, sf, m, n) ==
    IF Len(m.stack) = 0 THEN m
    ELSE IF n <= 1 THEN StepIn(o, b, sf, m)
    ELSE LET half == RunIn(o, b, sf, m, n \div 2)
         IN  IF Len(half.stack) = 0 THEN half
             ELSE RunIn(o, b, sf, half, n - (n \div 2))

\* count_winning_games, lines 428-431, on the Game of fields d, s and sf, with
\* the order o: what the first call returns.
CountIn(o, b, sf, d, s) ==
    LET g == [dragon |-> d, sheep |-> s, seen |-> EmptyCache(b),
              stack |-> <<>>, ret |-> U64Zero, overflow |-> FALSE]
    IN  RunIn(o, b, sf, CallSheep(g), 2^RunLog).ret

\* The orders that are tried: every order of the columns, with the table of
\* the source and with the table read backwards, and the columns of the source
\* with the table turned by MaxTurn places at most.
MaxTurn == 2

Orders(b) ==
    LET cols     == SourceOrder(b).cols
        reversed == [i \in 1..NumMoves |-> MOVES[NumMoves + 1 - i]]
        turned   == {[i \in 1..NumMoves |-> MOVES[((i - 1 + k) % NumMoves) + 1]] :
                        k \in 1..MaxTurn}
        orders   == {p \in [1..Len(cols) -> {cols[i] : i \in 1..Len(cols)}] :
                        \A i, j \in 1..Len(cols) : i # j => p[i] # p[j]}
    IN  {[moves |-> t, cols |-> p] : t \in {MOVES, reversed}, p \in orders}
            \cup {[moves |-> t, cols |-> cols] : t \in turned}

(***************************************************************************)
(* C27.  The count does not depend on the order of enumeration: with the    *)
(* table of offsets permuted, the columns scanned in another order, or      *)
(* both, the search on the Game that Game::new makes returns, on every      *)
(* board, what count_winning_games returns.                                 *)
(***************************************************************************)
C27_OrderDoesNotMatter ==
    Done =>
        /\ dragon = board.dragon
        /\ sheep = InitialSheep(board)
        /\ \A o \in Orders(board) : CountIn(o, board, safe, dragon, sheep) = result

\* A search has returned a count that is not 0 on a board with two sheep or
\* more, and a search that starts from the last column and the last entry of
\* the table, which is not the order of the source, returns the same.
C27_Witness ==
    /\ Done
    /\ Live(sheep) >= 2
    /\ result # U64Zero
    /\ \E o \in Orders(board) :
           /\ o.moves[1] = MOVES[NumMoves]
           /\ o.cols[1] = board.width - 1
           /\ CountIn(o, board, safe, dragon, sheep) = result

\* A test that asks is_blocked before it compares the cell with the dragon's.
IntoDragonProbes_Eager(b, d, pos1) == {pos1}

\* sheep_moves line 480: where is_blocked is evaluated.  The && evaluates its
\* right side only when the left holds.
IntoDragonProbes(b, d, pos1) == IF pos1 = d THEN {pos1} ELSE {}

\* The positions at which the statement the machine executes next evaluates
\* Board::is_blocked: line 480 in the loop of sheep_moves at a sheep, line 450
\* in the loop of dragon_moves at an item of the iterator.
BlockedProbes(b, m) ==
    IF InSheepLoop(b, m) /\ m.sheep[Top(m).c] # NONE
    THEN IntoDragonProbes(b, m.dragon, SheepTarget(m))
    ELSE IF InDragonLoop(b, m)
    THEN {MoveTarget(Top(m).pos, DragonNext(b, m))}
    ELSE {}

(***************************************************************************)
(* C28.  In every state of the search, on a board of height 98 at most,     *)
(* the row of every sheep on the board is less than the height, the dragon  *)
(* is on the board, and Board::is_blocked is evaluated only at positions on *)
(* the board, whose index is one of the vector `blocked`; so it is when the *)
(* next row of a sheep is the height.                                       *)
(***************************************************************************)
C28_StaysInBounds ==
    board.height <= 98 /\ pc = "running" =>
        /\ \A c \in DOMAIN sheep :
               sheep[c] # NONE => sheep[c] >= 0 /\ sheep[c] < board.height
        /\ dragon \in Positions(board)
        /\ \A p \in BlockedProbes(board, Machine) :
               /\ p \in Positions(board)
               /\ into_index(p, board.width) \in DOMAIN board.blocked

\* The loop of sheep_moves is at a sheep in the last row, in the column of the
\* dragon: its next row is the height, and is_blocked is not evaluated.
C28_Witness ==
    /\ pc = "running"
    /\ AtLiveSheep
    /\ SheepTarget(Machine).row = board.height
    /\ Top(Machine).c = dragon.col
    /\ BlockedProbes(board, Machine) = {}

\* The rows of column c in which the board b has a sheep marker.
MarkerRows(b, c) == {r \in 0..(b.height - 1) : board_has_sheep_at(b, Pos(r, c))}

\* The board b without the markers that have a marker above them in their
\* column.
TopOnly(b) ==
    [b EXCEPT !.sheep =
        [i \in DOMAIN b.sheep |->
            /\ b.sheep[i]
            /\ \A r \in MarkerRows(b, i % b.width) : r >= i \div b.width]]

(***************************************************************************)
(* C29.  Game::new tracks one sheep for each column: the row it starts with *)
(* is the row of the topmost marker of the column, or 99 when the column    *)
(* has no marker.  The markers below it are ignored: on the board without   *)
(* them Game::new makes the same Game, every statement of the search does   *)
(* the same, and the same count is returned.                                *)
(***************************************************************************)
C29_TopmostSheepTracked ==
    /\ pc = "start" =>
           /\ \A c \in DOMAIN sheep :
                  /\ sheep[c] = NONE <=> MarkerRows(board, c) = {}
                  /\ sheep[c] # NONE =>
                         /\ sheep[c] \in MarkerRows(board, c)
                         /\ \A r \in MarkerRows(board, c) : sheep[c] <= r
           /\ sheep = InitialSheep(TopOnly(board))
           /\ safe = InitialSafe(TopOnly(board))
           /\ dragon = TopOnly(board).dragon
    /\ pc = "running" /\ Len(stack) > 0 =>
           Step(TopOnly(board), safe, Machine) = Step(board, safe, Machine)
    /\ Done =>
           result = CountIn(SourceOrder(board), TopOnly(board), safe, dragon, sheep)

\* A search has returned a count that is not 0 on a board with two markers in
\* one column; the Game started with the upper one, and the board without the
\* lower one is another board.
C29_Witness ==
    /\ Done
    /\ result # U64Zero
    /\ \E c \in DOMAIN sheep :
           /\ Cardinality(MarkerRows(board, c)) >= 2
           /\ sheep[c] = Least(MarkerRows(board, c))
    /\ TopOnly(board) # board

(***************************************************************************)
(* The parser on its own.  SpecParse draws a text of MaxLines lines at most, *)
(* each of MaxLineLen characters at most, out of the four characters of a   *)
(* grid and one that is none of them; Day10::parse calls Board::from_str on *)
(* it, and on Ok Day10::part_3 makes the Game.  The text is the argument s  *)
(* of the frame of from_str; `result` is what from_str returned.            *)
(***************************************************************************)
MaxLines == 2

MaxLineLen == 2

GridChars == {".", "D", "S", "#"}

\* The texts: sequences of lines, a line a sequence of characters.
Texts ==
    LET lines == UNION {[1..k -> GridChars \cup {"x"}] : k \in 0..MaxLineLen}
    IN  UNION {[1..k -> lines] : k \in 0..MaxLines}

\* No Board has been made.
NoBoard ==
    [width |-> 0, height |-> 0, dragon |-> NoDragon, sheep |-> <<>>, blocked |-> <<>>]

InitParse ==
    \E s \in Texts :
        /\ board = NoBoard
        /\ dragon = NoDragon
        /\ sheep = <<>>
        /\ safe = <<>>
        /\ seen = NoEntry
        /\ stack = <<[fn |-> "from_str", at |-> "entry", s |-> s]>>
        /\ ret = U64Zero
        /\ overflow = FALSE
        /\ entry = "Board::from_str"
        /\ pc = "start"
        /\ result = NoEntry

\* Day10::parse: Board::from_str runs on its argument and returns.
FromStr ==
    /\ entry = "Board::from_str"
    /\ pc = "start"
    /\ pc' = "done"
    /\ result' = from_str(stack[1].s)
    /\ stack' = <<>>
    /\ UNCHANGED <<board, dragon, sheep, safe, seen, ret, overflow, entry>>

\* Day10::part_3 on the Board that from_str returned: Game::new.
NewGame ==
    /\ entry = "Board::from_str"
    /\ pc = "done"
    /\ result.kind = "Ok"
    /\ board' = result.board
    /\ dragon' = result.board.dragon
    /\ sheep' = InitialSheep(result.board)
    /\ safe' = InitialSafe(result.board)
    /\ entry' = "count_winning_games"
    /\ pc' = "start"
    /\ result' = NoEntry
    /\ UNCHANGED <<seen, stack, ret, overflow>>

NextParse ==
    \/ FromStr
    \/ NewGame

SpecParse == InitParse /\ [][NextParse]_vars

\* The ways a text is not a grid: it has no 'D', more than one 'D', a
\* character that is none of the four, or a row that is not as long as the
\* first.
Malformed(s) ==
    LET cells   == {rc \in (1..Len(s)) \X (1..MaxLineLen + 1) : rc[2] <= Len(s[rc[1]])}
        dragons == {rc \in cells : s[rc[1]][rc[2]] = "D"}
    IN  \/ dragons = {}
        \/ Cardinality(dragons) > 1
        \/ \E rc \in cells : s[rc[1]][rc[2]] \notin GridChars
        \/ \E r \in 1..Len(s) : Len(s[r]) # Len(s[1])

(***************************************************************************)
(* C30.  As claimed: Board::from_str returns a SyntaxError for a text with  *)
(* no dragon, with more than one dragon, with a character other than        *)
(* '.', 'D', 'S', '#', or with a row whose length is not that of the first  *)
(* row.  from_str does not compare the lengths of the rows: such a text is  *)
(* made a Board, or the write of an 'S' or '#' past the end of a vector     *)
(* panics.                                                                  *)
(***************************************************************************)
C30_AsClaimed ==
    [][entry = "Board::from_str" /\ pc = "start" /\ Malformed(stack[1].s) =>
          result'.kind = "SyntaxError"]_vars

\* A Game has been made on the Board of a text whose second row was longer
\* than the first: the dragon is not on the board.
C30_Witness ==
    /\ entry = "count_winning_games"
    /\ pc = "start"
    /\ dragon \notin Positions(board)
    /\ dragon.col >= board.width
    /\ dragon.row < board.height

====
